---- MODULE Spec2Model ----
(***************************************************************************)
(* Model of python/mxnet/rnn/io.py: the vocabulary encoder                 *)
(* encode_sentences and the bucketing iterator BucketSentenceIter.         *)
(*                                                                         *)
(* Two specifications share the variables.  SpecEnc runs calls of          *)
(* encode_sentences one loop iteration at a time; Spec constructs a        *)
(* BucketSentenceIter and then runs any sequence of reset() and next().    *)
(***************************************************************************)
EXTENDS Integers, Sequences, FiniteSets, TLC

VARIABLES
    \* ---- encode_sentences: arguments and locals
    sentences,      \* argument: list of list of str (the sentences read so far)
    sent,           \* loop variable: the words read of the current sentence
    invalid_label,  \* argument
    start_label,    \* argument
    vocab,          \* dict str -> int (argument or built)
    new_vocab,      \* local flag
    idx,            \* local: next index to allocate
    res,            \* local: encoded sentences so far
    coded,          \* local: encoding of the sentence being read
    pc,             \* "idle" | "loop" | "returned" | "raised"
    err,            \* token named by the AssertionError, or NoToken
    vocab0,         \* history: the vocabulary as it was at call entry
    \* ---- BucketSentenceIter
    args,           \* constructor arguments
    self,           \* the object's fields
    ndiscard,       \* __init__'s local, as the warning prints it
    ipc,            \* "start" | "ready" | "raised"
    out,            \* outcome of the last next() call
    hist            \* history: construction-time copies, row identities, counters

encVars == <<sentences, sent, invalid_label, start_label, vocab, new_vocab, idx, res,
             coded, pc, err, vocab0>>
iterVars == <<args, self, ndiscard, ipc, out, hist>>
vars == <<sentences, sent, invalid_label, start_label, vocab, new_vocab, idx, res,
          coded, pc, err, vocab0, args, self, ndiscard, ipc, out, hist>>

(***************************************************************************)
(* Bounds of the model.                                                    *)
(***************************************************************************)
MaxSents == 2
MaxSentLen == 2
MaxTokens == 4

(***************************************************************************)
(* encode_sentences                                                        *)
(***************************************************************************)
invalid_key == "\n"
Tokens == {"a", "b", invalid_key}
NoToken == "<none>"
StartLabels == {0, 1}
InvalidLabels == {-1, 1}
EmptyDict == <<>>

\* vocab[word] = i
DictSet(v, word, i) ==
    [w \in (DOMAIN v) \cup {word} |-> IF w = word THEN i ELSE v[w]]

\* {invalid_key: invalid_label}
InitialVocab(inv) == DictSet(EmptyDict, invalid_key, inv)

NoSkip(i, inv) == i

\* if idx == invalid_label: idx += 1
SkipInvalid(i, inv) == IF i = inv THEN i + 1 ELSE i

\* idx += 1  after  vocab[word] = idx
SameIdx(i) == i

NextIdx(i) == i + 1

AssertStripped(nv) == TRUE

\* the condition of  assert new_vocab, "Unknow token %s"%word
AssertPasses(nv) == nv

\* coded.append(vocab[word])
AppendCode(c, v, word) == Append(c, v[word])

\* def encode_sentences(...): the code before the loop.  The vocab argument is
\* None or the dict an earlier call returned (or left behind when it raised).
\* The function reads its argument  sentences  only through the two for loops,
\* one token at a time, so the argument is revealed as the loops read it:
\* sentences  holds the sentences read to their end and  sent  the tokens read
\* of the sentence the inner loop is in.
Call ==
    /\ pc \in {"idle", "returned", "raised"}
    /\ \E sl \in StartLabels, il \in InvalidLabels,
          supplied \in IF pc = "idle" THEN {FALSE} ELSE BOOLEAN :
        /\ start_label' = sl
        /\ invalid_label' = il
        /\ idx' = sl
        /\ IF supplied
           THEN vocab' = vocab /\ new_vocab' = FALSE
           ELSE vocab' = InitialVocab(il) /\ new_vocab' = TRUE
    /\ vocab0' = vocab'
    /\ sentences' = <<>>
    /\ sent' = <<>>
    /\ res' = <<>>
    /\ coded' = <<>>
    /\ err' = NoToken
    /\ pc' = "loop"
    /\ UNCHANGED iterVars

\* for sent in sentences  has another sentence to give
MoreSentences == Len(sentences) < MaxSents

\* the number of tokens in a list of sentences
RECURSIVE CountTokens(_)
CountTokens(ss) == IF ss = <<>> THEN 0 ELSE Len(Head(ss)) + CountTokens(Tail(ss))

\* for word in sent  has another word to give
MoreWords == CountTokens(sentences) + Len(sent) < MaxTokens

\* one iteration of  for word in sent  with a word the vocabulary holds
KnownWord ==
    /\ pc = "loop"
    /\ MoreSentences /\ MoreWords
    /\ \E word \in Tokens :
        /\ word \in DOMAIN vocab
        /\ sent' = Append(sent, word)
        /\ coded' = AppendCode(coded, vocab, word)
    /\ UNCHANGED <<sentences, invalid_label, start_label, vocab, new_vocab, idx,
                   res, pc, err, vocab0>>
    /\ UNCHANGED iterVars

\* one iteration with a word the vocabulary lacks, the assertion passing
NewWord ==
    /\ pc = "loop"
    /\ MoreSentences /\ MoreWords
    /\ \E word \in Tokens :
        /\ word \notin DOMAIN vocab
        /\ AssertPasses(new_vocab)
        /\ sent' = Append(sent, word)
        /\ LET i == SkipInvalid(idx, invalid_label)
               v == DictSet(vocab, word, i)
           IN /\ vocab' = v
              /\ idx' = NextIdx(i)
              /\ coded' = AppendCode(coded, v, word)
    /\ UNCHANGED <<sentences, invalid_label, start_label, new_vocab, res, pc,
                   err, vocab0>>
    /\ UNCHANGED iterVars

\* one iteration with a word the vocabulary lacks, the assertion failing
UnknownToken ==
    /\ pc = "loop"
    /\ MoreSentences /\ MoreWords
    /\ \E word \in Tokens :
        /\ word \notin DOMAIN vocab
        /\ ~AssertPasses(new_vocab)
        /\ sent' = Append(sent, word)
        /\ err' = word
    /\ pc' = "raised"
    /\ UNCHANGED <<sentences, invalid_label, start_label, vocab, new_vocab, idx,
                   res, coded, vocab0>>
    /\ UNCHANGED iterVars

\* the inner loop ends: res.append(coded)
EndSentence ==
    /\ pc = "loop"
    /\ MoreSentences
    /\ sentences' = Append(sentences, sent)
    /\ sent' = <<>>
    /\ res' = Append(res, coded)
    /\ coded' = <<>>
    /\ UNCHANGED <<invalid_label, start_label, vocab, new_vocab, idx,
                   pc, err, vocab0>>
    /\ UNCHANGED iterVars

\* the outer loop ends: return res, vocab
Return ==
    /\ pc = "loop"
    /\ sent = <<>>
    /\ pc' = "returned"
    /\ UNCHANGED <<sentences, sent, invalid_label, start_label, vocab, new_vocab,
                   idx, res, coded, err, vocab0>>
    /\ UNCHANGED iterVars

(***************************************************************************)
(* BucketSentenceIter                                                      *)
(*                                                                         *)
(* Bucket ids and row offsets are 0-based as in the code; TLA+ sequences   *)
(* are 1-based, so bucket i is self.data[i + 1] and the slice [j : j + n]  *)
(* is the rows j + 1 .. j + n.                                             *)
(***************************************************************************)
MaxBatch == 2
MaxStops == 2

\* the encoded sentences the constructor is given: of every length up to
\* MaxSentLen, neighbouring positions holding different integers (the code
\* reads a sentence's length and copies its elements, nothing else)
Variants == {0}
EncodedSentences == {[k \in 1..n |-> (k + v) % 2] : n \in 0..MaxSentLen, v \in Variants}
IterInvalidLabels == {-1, 0}
SeqsUpTo(S, n) == UNION {[1..k -> S] : k \in 0..n}
\* the buckets argument: None or [] (both fail  if not buckets) is <<>>;
\* otherwise a list of positive widths, in any order, repeats allowed
BucketArgs == {<<>>} \cup UNION {[1..k -> 1..MaxSentLen] : k \in 1..2}

NoObject ==
    [data |-> <<>>, buckets |-> <<>>, batch_size |-> 0, invalid_label |-> 0,
     default_bucket_key |-> 0, idx |-> <<>>, curr_idx |-> 0]
NoArgs == [sentences |-> <<>>, batch_size |-> 0, invalid_label |-> 0, buckets |-> <<>>]
NoOutcome == [kind |-> "none", data |-> <<>>, label |-> <<>>, bucket_key |-> 0]
NoHist ==
    [op |-> "none", data0 |-> <<>>, idx0 |-> <<>>, rowid |-> <<>>, nexts |-> 0,
     batches |-> 0, served |-> <<>>, rows |-> <<>>]

SeqMax(s) == CHOOSE m \in {s[k] : k \in 1..Len(s)} : \A k \in 1..Len(s) : s[k] <= m

\* np.bincount([len(s) for s in sentences])[i]
bincount(ss, i) == Cardinality({k \in 1..Len(ss) : Len(ss[k]) = i})

\* the ascending sequence of the members of a set of integers
RECURSIVE Ascending(_)
Ascending(S) ==
    IF S = {} THEN <<>>
    ELSE LET m == CHOOSE x \in S : \A y \in S : x <= y
         IN <<m>> \o Ascending(S \ {m})

\* [i for i, j in enumerate(np.bincount(...)) if j >= batch_size].  Of no
\* sentences np.bincount has no counts to give (older numpy raises there); the
\* constructor raises either way, at the latest at max(buckets).
DerivedBuckets(ss, bs) ==
    IF ss = <<>> THEN <<>>
    ELSE Ascending({i \in 0..SeqMax([k \in 1..Len(ss) |-> Len(ss[k])]) :
                       bincount(ss, i) >= bs})

\* buckets.sort()
RECURSIVE Insert(_, _)
Insert(s, x) ==
    IF s = <<>> THEN <<x>>
    ELSE IF x <= Head(s) THEN <<x>> \o s ELSE <<Head(s)>> \o Insert(Tail(s), x)
RECURSIVE Sort(_)
Sort(s) == IF s = <<>> THEN <<>> ELSE Insert(Sort(Tail(s)), Head(s))

\* bisect.bisect_left(a, x): the binary search of the standard library
RECURSIVE bisect(_, _, _, _)
bisect(a, x, lo, hi) ==
    IF lo < hi
    THEN LET mid == (lo + hi) \div 2
         IN IF a[mid + 1] < x THEN bisect(a, x, mid + 1, hi) ELSE bisect(a, x, lo, mid)
    ELSE lo

RECURSIVE bisect_r(_, _, _, _)
bisect_r(a, x, lo, hi) ==
    IF lo < hi
    THEN LET mid == (lo + hi) \div 2
         IN IF x < a[mid + 1] THEN bisect_r(a, x, lo, mid) ELSE bisect_r(a, x, mid + 1, hi)
    ELSE lo
bisect_right(a, x) == bisect_r(a, x, 0, Len(a))

bisect_left(a, x) == bisect(a, x, 0, Len(a))

\* buff = np.full((width,), invalid_label); buff[:len(s)] = s
Pad(s, width, inv) == [k \in 1..width |-> IF k <= Len(s) THEN s[k] ELSE inv]

SameCount(n) == n

\* ndiscard += 1
CountDiscard(n) == n + 1

\* the loop of lines 93-100 over the first k sentences: the rows of every
\* bucket, the sentence each row came from, and the discard count
RECURSIVE Fill(_, _, _, _)
Fill(ss, bk, inv, k) ==
    IF k = 0
    THEN [data |-> [b \in 1..Len(bk) |-> <<>>],
          rowid |-> [b \in 1..Len(bk) |-> <<>>],
          ndiscard |-> 0]
    ELSE LET prev == Fill(ss, bk, inv, k - 1)
             buck == bisect_left(bk, Len(ss[k]))
         IN IF buck = Len(bk)
            THEN [prev EXCEPT !.ndiscard = CountDiscard(@)]
            ELSE [prev EXCEPT !.data[buck + 1] = Append(@, Pad(ss[k], bk[buck + 1], inv)),
                              !.rowid[buck + 1] = Append(@, k)]

\* range(0, stop, step), step > 0
Range(stop, step) ==
    [k \in 1..(IF stop <= 0 THEN 0 ELSE (stop + step - 1) \div step) |-> (k - 1) * step]

\* range(0, len(buck) - batch_size + 1, batch_size)
BatchStarts(nrows, bs) == Range(nrows - bs + 1, bs)

\* the loop of lines 119-120 over the buckets from the b-th on
RECURSIVE IndexTable(_, _, _)
IndexTable(data, bs, b) ==
    IF b > Len(data) THEN <<>>
    ELSE LET js == BatchStarts(Len(data[b]), bs)
         IN [k \in 1..Len(js) |-> <<b - 1, js[k]>>] \o IndexTable(data, bs, b + 1)

\* __init__
Construct ==
    /\ ipc = "start"
    /\ \E ss \in SeqsUpTo(EncodedSentences, MaxSents),
          bs \in 1..MaxBatch, inv \in IterInvalidLabels, ba \in BucketArgs :
        LET bk == Sort(IF ba = <<>> THEN DerivedBuckets(ss, bs) ELSE ba)
            f == Fill(ss, bk, inv, Len(ss))
            table == IndexTable(f.data, bs, 1)
        IN /\ args' = [sentences |-> ss, batch_size |-> bs, invalid_label |-> inv,
                       buckets |-> ba]
           /\ ndiscard' = f.ndiscard
           /\ IF bk = <<>>
              THEN \* max(buckets) raises ValueError on the empty list
                   /\ ipc' = "raised"
                   /\ self' = [NoObject EXCEPT !.data = f.data]
                   /\ hist' = [NoHist EXCEPT !.op = "construct"]
              ELSE /\ ipc' = "ready"
                   /\ self' = [data |-> f.data, buckets |-> bk, batch_size |-> bs,
                               invalid_label |-> inv, default_bucket_key |-> SeqMax(bk),
                               idx |-> table, curr_idx |-> 0]
                   /\ hist' = [NoHist EXCEPT !.op = "construct", !.data0 = f.data,
                                             !.idx0 = table, !.rowid = f.rowid]
    /\ out' = NoOutcome
    /\ UNCHANGED encVars

Resamples(n) == [1..n -> 1..n]

\* random.shuffle / np.random.shuffle of n items: item p[k] moves to place k
Shuffles(n) == Permutations(1..n)

Shuffled(s, p) == [k \in 1..Len(s) |-> s[p[k]]]

\* one shuffle for each bucket from the b-th on
RECURSIVE BucketShuffles(_, _)
BucketShuffles(data, b) ==
    IF b > Len(data) THEN {<<>>}
    ELSE {<<p>> \o rest : p \in Shuffles(Len(data[b])), rest \in BucketShuffles(data, b + 1)}

KeepCursor(cur) == cur

\* self.curr_idx = 0
ResetCursor(cur) == 0

\* reset()
Reset ==
    /\ ipc = "ready"
    /\ \E p \in Shuffles(Len(self.idx)), ps \in BucketShuffles(self.data, 1) :
        /\ self' = [self EXCEPT
                       !.curr_idx = ResetCursor(@),
                       !.idx = Shuffled(@, p),
                       !.data = [b \in 1..Len(@) |-> Shuffled(@[b], ps[b])]]
        /\ hist' = [hist EXCEPT
                       !.op = "reset",
                       !.rowid = [b \in 1..Len(@) |-> Shuffled(@[b], ps[b])],
                       !.nexts = 0, !.batches = 0, !.served = <<>>, !.rows = <<>>]
    /\ out' = NoOutcome
    /\ UNCHANGED <<args, ndiscard, ipc>>
    /\ UNCHANGED encVars

\* self.data[i][j:j+self.batch_size]
Slice(rows, j, n) == SubSeq(rows, j + 1, IF j + n <= Len(rows) THEN j + n ELSE Len(rows))

Unshifted(row, inv) == row

\* label[:, :-1] = data[:, 1:]; label[:, -1] = self.invalid_label, for one row
ShiftLabel(row, inv) == SubSeq(row, 2, Len(row)) \o <<inv>>

\* self.curr_idx += 1
Advance(cur) == cur + 1

\* next() when the cursor is at the end of the index table: raise StopIteration
NextStop ==
    /\ ipc = "ready"
    /\ hist.nexts < Len(self.idx) + MaxStops
    /\ self.curr_idx = Len(self.idx)
    /\ out' = [NoOutcome EXCEPT !.kind = "stop"]
    /\ hist' = [hist EXCEPT !.op = "next", !.nexts = @ + 1]
    /\ UNCHANGED <<args, self, ndiscard, ipc>>
    /\ UNCHANGED encVars

\* next() otherwise.  In a bucket of width 0, label[:, -1] is out of bounds and
\* numpy raises IndexError, after the cursor has moved.
NextBatch ==
    /\ ipc = "ready"
    /\ hist.nexts < Len(self.idx) + MaxStops
    /\ self.curr_idx # Len(self.idx)
    /\ LET i == self.idx[self.curr_idx + 1][1]
           j == self.idx[self.curr_idx + 1][2]
           data == Slice(self.data[i + 1], j, self.batch_size)
           ids == Slice(hist.rowid[i + 1], j, self.batch_size)
           served == [hist EXCEPT !.op = "next", !.nexts = @ + 1,
                                  !.served = Append(@, <<i, j>>),
                                  !.rows = @ \o ids]
       IN /\ self' = [self EXCEPT !.curr_idx = Advance(@)]
          /\ IF self.buckets[i + 1] = 0
             THEN /\ out' = [NoOutcome EXCEPT !.kind = "IndexError"]
                  /\ hist' = served
             ELSE /\ out' = [kind |-> "batch",
                             data |-> data,
                             label |-> [r \in 1..Len(data) |->
                                           ShiftLabel(data[r], self.invalid_label)],
                             bucket_key |-> self.buckets[i + 1]]
                  /\ hist' = [served EXCEPT !.batches = @ + 1]
    /\ UNCHANGED <<args, ndiscard, ipc>>
    /\ UNCHANGED encVars

IterIdle ==
    /\ args = NoArgs
    /\ self = NoObject
    /\ ndiscard = 0
    /\ ipc = "start"
    /\ out = NoOutcome
    /\ hist = NoHist

EncIdle ==
    /\ sentences = <<>>
    /\ sent = <<>>
    /\ invalid_label = -1
    /\ start_label = 0
    /\ vocab = EmptyDict
    /\ new_vocab = FALSE
    /\ idx = 0
    /\ res = <<>>
    /\ coded = <<>>
    /\ pc = "idle"
    /\ err = NoToken
    /\ vocab0 = EmptyDict

InitEnc == EncIdle /\ IterIdle

NextEnc ==
    \/ Call
    \/ KnownWord
    \/ NewWord
    \/ UnknownToken
    \/ EndSentence
    \/ Return

SpecEnc == InitEnc /\ [][NextEnc]_vars

Init == EncIdle /\ IterIdle

Next ==
    \/ Construct
    \/ Reset
    \/ NextStop
    \/ NextBatch

Spec == Init /\ [][Next]_vars

(***************************************************************************)
(* Claims about BucketSentenceIter, checked under Spec.                    *)
(***************************************************************************)
Floor(n, d) == n \div d

RECURSIVE SumFloor(_, _)
SumFloor(data, bs) ==
    IF data = <<>> THEN 0 ELSE Floor(Len(Head(data)), bs) + SumFloor(Tail(data), bs)

RECURSIVE SumLen(_)
SumLen(data) == IF data = <<>> THEN 0 ELSE Len(Head(data)) + SumLen(Tail(data))

Min(a, b) == IF a <= b THEN a ELSE b

\* the places (bucket, row) that hold the row made from sentence k
PlacesOf(k) ==
    {<<b, r>> \in (1..Len(self.data)) \X (1..MaxSents) :
        r <= Len(hist.rowid[b]) /\ hist.rowid[b][r] = k}

\* s holds the members of t, each as often as t does
IsPermutation(s, t) ==
    /\ Len(s) = Len(t)
    /\ \A x \in {s[k] : k \in 1..Len(s)} \cup {t[k] : k \in 1..Len(t)} :
         Cardinality({k \in 1..Len(s) : s[k] = x}) = Cardinality({k \in 1..Len(t) : t[k] = x})

NoRepeats(s) == \A k, l \in 1..Len(s) : k # l => s[k] # s[l]

\* C1: the index table has sum over buckets of floor(rows / batch_size)
\* entries, and of the next() calls made since construction or the last
\* reset() the first Len(idx) each returned a batch and every later one
\* signalled the stop condition.
C1_EpochSize ==
    ipc = "ready" =>
        /\ Len(self.idx) = SumFloor(self.data, self.batch_size)
        /\ hist.batches = Min(hist.nexts, Len(self.idx))
        /\ hist.nexts > Len(self.idx) => out.kind = "stop"

\* C1, for the iterators none of whose buckets has width 0
C1_EpochSizePositiveWidths ==
    (ipc = "ready" /\ \A b \in 1..Len(self.buckets) : self.buckets[b] > 0) => C1_EpochSize

\* C2: every sentence no longer than the widest bucket is one row of one
\* bucket, no bucket at least as wide as the sentence is narrower than that
\* bucket, and the row is the sentence followed by invalid_label up to the
\* bucket's width.
C2_SmallestBucket ==
    ipc = "ready" =>
        \A k \in 1..Len(args.sentences) :
            LET s == args.sentences[k]
            IN Len(s) <= SeqMax(self.buckets) =>
                /\ Cardinality(PlacesOf(k)) = 1
                /\ \A pl \in PlacesOf(k) :
                    LET width == self.buckets[pl[1]]
                        row == self.data[pl[1]][pl[2]]
                    IN /\ width >= Len(s)
                       /\ \A b \in 1..Len(self.buckets) :
                            self.buckets[b] >= Len(s) => self.buckets[b] >= width
                       /\ Len(row) = width
                       /\ \A c \in 1..width :
                            row[c] = IF c <= Len(s) THEN s[c] ELSE args.invalid_label

\* buckets given out of order; one sentence padded, another passing over a
\* bucket too narrow for it and filling its own
C2_Witness ==
    /\ ipc = "ready"
    /\ hist.op = "construct"
    /\ Len(args.buckets) = 2
    /\ args.buckets[1] > args.buckets[2]
    /\ \E k \in 1..Len(args.sentences) : \E pl \in PlacesOf(k) :
        Len(args.sentences[k]) < self.buckets[pl[1]]
    /\ \E k \in 1..Len(args.sentences) : \E pl \in PlacesOf(k) :
        /\ pl[1] > 1
        /\ Len(args.sentences[k]) = self.buckets[pl[1]]

\* C3: no sentence longer than the widest bucket is a row of any bucket, the
\* discard count is the number of such sentences, and rows plus discards are
\* the sentences.
C3_Discards ==
    ipc = "ready" =>
        LET long == {k \in 1..Len(args.sentences) :
                        Len(args.sentences[k]) > SeqMax(self.buckets)}
        IN /\ \A k \in long : PlacesOf(k) = {}
           /\ ndiscard = Cardinality(long)
           /\ SumLen(self.data) + ndiscard = Len(args.sentences)

\* one sentence discarded and another stored
C3_Witness ==
    /\ ipc = "ready"
    /\ ndiscard > 0
    /\ SumLen(self.data) > 0

\* C4: a returned batch's label has the data's shape, every label row is the
\* data row moved one place left, and its last place holds invalid_label.
C4_LabelShift ==
    out.kind = "batch" =>
        /\ Len(out.label) = Len(out.data)
        /\ Len(out.data) = self.batch_size
        /\ \A r \in 1..Len(out.data) :
            LET width == Len(out.data[r])
            IN /\ width = out.bucket_key
               /\ Len(out.label[r]) = width
               /\ \A c \in 1..(width - 1) : out.label[r][c] = out.data[r][c + 1]
               /\ out.label[r][width] = self.invalid_label

\* a batch of two rows after a reset, a row holding two different integers
C4_Witness ==
    /\ out.kind = "batch"
    /\ hist.op = "next"
    /\ Len(out.data) = 2
    /\ \E r \in 1..2 : Len(out.data[r]) > 1 /\ out.data[r][1] # out.data[r][2]
    /\ self.idx # hist.idx0 \/ self.data # hist.data0

\* C8: when no buckets are given and none is derived, construction completes,
\* every sentence is discarded and the index table is empty.
C8_EmptyBucketSet ==
    (ipc # "start" /\ args.buckets = <<>>
        /\ DerivedBuckets(args.sentences, args.batch_size) = <<>>) =>
        /\ ipc = "ready"
        /\ ndiscard = Len(args.sentences)
        /\ self.idx = <<>>
        /\ self.curr_idx = Len(self.idx)

\* C9: after a next() that signalled the stop condition and until a reset(),
\* a next() signals it again and changes no field of the iterator; a reset()
\* sets the cursor to 0.
C9_StopIsStable ==
    [][/\ (out.kind = "stop" /\ hist'.op = "next") =>
            (out'.kind = "stop" /\ self' = self)
       /\ hist'.op = "reset" => self'.curr_idx = 0]_vars

\* the stop condition signalled twice in an epoch that a reset began mid-epoch
C9_Witness ==
    /\ out.kind = "stop"
    /\ hist.nexts = Len(self.idx) + 2
    /\ Len(self.idx) > 0
    /\ self.idx # hist.idx0

RECURSIVE Flat(_)
Flat(ss) == IF ss = <<>> THEN <<>> ELSE Head(ss) \o Flat(Tail(ss))
TokensRead == Flat(sentences) \o sent

\* the keys the inverse of a vocabulary gives for an index
Decode(v, i) == {w \in DOMAIN v : v[w] = i}

\* C5: while a call that builds a new vocabulary runs, and after it, no token
\* other than invalid_key has the index invalid_label, whatever start_label is.
C5_ReservedIndex ==
    (pc # "idle" /\ new_vocab) =>
        \A w \in DOMAIN vocab : w # invalid_key => vocab[w] # invalid_label

\* start_label < invalid_label, and an index beyond invalid_label was assigned
C5_Witness ==
    /\ new_vocab
    /\ start_label < invalid_label
    /\ \E w \in DOMAIN vocab : w # invalid_key /\ vocab[w] > invalid_label

\* C6: when the call returns, res has one entry per sentence, each of the
\* sentence's length, and every code's only key in the returned vocabulary is
\* the token at that place.
C6_RoundTrip ==
    pc = "returned" =>
        /\ Len(res) = Len(sentences)
        /\ \A s \in 1..Len(res) :
            /\ Len(res[s]) = Len(sentences[s])
            /\ \A k \in 1..Len(res[s]) :
                 Decode(vocab, res[s][k]) = {sentences[s][k]}

\* two sentences returned, the first with two different tokens
C6_Witness ==
    /\ pc = "returned"
    /\ Len(sentences) = 2
    /\ Len(sentences[1]) = 2
    /\ sentences[1][1] # sentences[1][2]
    /\ Len(sentences[2]) > 0

====
